---- MODULE Spec2Model ----
(***************************************************************************)
(* Model of _scripts/fetch_news.py: the two-pass trend-scoring pipeline.   *)
(*                                                                         *)
(* Text is a sequence of one-character strings, so that lower-casing,      *)
(* tokenisation, len() and substring containment are computed character    *)
(* by character; a character outside ASCII is written as its code point,   *)
(* "U+7684".  A JSON null / missing value is the value None.               *)
(***************************************************************************)
EXTENDS Integers, Sequences, FiniteSets, TLC

(* ------------------------------ configuration ------------------------- *)

TARGET_ARTICLE_COUNT == 15
FETCH_POOL_SIZE == 50
TREND_SEARCH_DAYS == 10
TREND_SEARCH_POOL_SIZE == 100
TOP_TRENDING_KEYWORDS_COUNT == 20

KEYWORDS == <<"A","I"," ","O","R"," ","U+4EBA","U+5DE5","U+667A","U+80FD"," ","O","R"," ","U+4EBA","U+5DE5","U+667A","U+6167">>

CUSTOM_STOP_WORDS == {
    <<"U+7684">>, <<"U+4E86">>, <<"U+5728">>, <<"U+662F">>, <<"U+6211">>, <<"U+4F60">>, <<"U+4ED6">>, <<"U+5979">>, <<"U+4E5F">>, <<"U+548C">>, <<"U+6216">>, <<"U+90FD">>, <<"U+5C31">>,
    <<"U+4E0E">>, <<"U+53CA">>, <<"U+4E2A">>, <<"U+4E3A">>, <<"U+4EE5">>, <<"U+4E2D">>, <<"U+4E0A">>, <<"U+4E0B">>, <<"U+5143">>, <<"U+6708">>, <<"U+65E5">>, <<"U+5E74">>, <<"U+6211","U+4EEC">>,
    <<"U+4E00","U+4E2A">>, <<"U+4EC0","U+4E48">>, <<"U+6CA1","U+6709">>, <<"U+8FD9","U+4E2A">>, <<"U+8FD9","U+4E9B">>, <<"U+4EE5","U+53CA">>, <<"U+5982","U+4F55">>, <<"U+4E3A","U+4EC0","U+4E48">>, <<"U+53EF","U+80FD">>, <<"U+8FDB","U+884C">>,
    <<"U+8868","U+793A">>, <<"U+6210","U+4E3A">>, <<"U+63A8","U+51FA">>, <<"U+53D1","U+5E03">>, <<"U+51FA","U+73B0">>, <<"U+4F7F","U+7528">>, <<"U+57FA","U+4E8E">>, <<"U+901A","U+8FC7">>, <<"U+636E">>, <<"U+79F0">>,
    <<"a">>, <<"a","n">>, <<"t","h","e">>, <<"i","s">>, <<"a","r","e">>, <<"w","a","s">>, <<"w","e","r","e">>, <<"t","o">>, <<"f","o","r">>, <<"o","f">>, <<"i","n">>, <<"o","n">>,
    <<"w","i","t","h">>, <<"b","y">>, <<"f","r","o","m">>, <<"a","b","o","u","t">>, <<"a","s">>, <<"a","t">>, <<"t","h","a","t">>, <<"t","h","i","s">>, <<"t","h","e","s","e">>, <<"t","h","o","s","e">>,
    <<"a","n","d">>, <<"o","r">>, <<"b","u","t">>, <<"i","f">>, <<"w","h","a","t">>, <<"w","h","e","n">>, <<"w","h","e","r","e">>, <<"h","o","w">>, <<"w","h","i","c","h">>, <<"w","h","o">>, <<"w","h","o","m">>,
    <<"w","i","l","l">>, <<"c","a","n">>, <<"n","o","t">>, <<"i","t">>, <<"i","t","s">>, <<"t","h","e","y">>, <<"t","h","e","i","r">>, <<"w","e">>, <<"o","u","r">>, <<"y","o","u">>, <<"y","o","u","r">>,
    <<"a","i">>, <<"U+4EBA","U+5DE5","U+667A","U+80FD">>, <<"U+4EBA","U+5DE5","U+667A","U+6167">> }

(* ------------------------------ text ---------------------------------- *)

\* Python's None (a JSON null, or a key that is absent).
None == <<"<None>">>

\* Python truthiness of a string-or-None value: None and '' are falsy.
Falsy(v) == v = None \/ v = <<>>

UpperChars == <<"A","B","C","D","E","F","G","H","I","J","K","L","M",
                "N","O","P","Q","R","S","T","U","V","W","X","Y","Z">>
LowerChars == <<"a","b","c","d","e","f","g","h","i","j","k","l","m",
                "n","o","p","q","r","s","t","u","v","w","x","y","z">>
DigitChars == {"0","1","2","3","4","5","6","7","8","9"}

\* Characters with the Unicode numeric property (str.isnumeric): the decimal
\* digits and, among others, the CJK numerals.
NumericChars == DigitChars \cup {"U+4E00","U+4E8C","U+4E09","U+56DB","U+4E94","U+516D","U+4E03","U+516B","U+4E5D","U+5341","U+767E","U+5343","U+4E07","U+4EBF","U+96F6"}

lower_char(c) ==
    IF \E i \in 1..Len(UpperChars) : UpperChars[i] = c
    THEN LowerChars[CHOOSE i \in 1..Len(UpperChars) : UpperChars[i] = c]
    ELSE c

\* str.lower()
lower(s) == [i \in 1..Len(s) |-> lower_char(s[i])]

\* str.isnumeric(): non-empty and every character numeric
isnumeric(w) == Len(w) > 0 /\ \A i \in 1..Len(w) : w[i] \in NumericChars

\* `k in s` on strings: k occurs as a contiguous substring of s
Contains(s, k) ==
    \E i \in 0..(Len(s) - Len(k)) : SubSeq(s, i + 1, i + Len(k)) = k

IsWordChar(c) ==
    \/ c \in DigitChars
    \/ \E i \in 1..Len(LowerChars) : LowerChars[i] = c \/ UpperChars[i] = c

RECURSIVE cut_from(_, _, _, _)
cut_from(s, i, cur, acc) ==
    IF i > Len(s)
    THEN IF cur = <<>> THEN acc ELSE Append(acc, cur)
    ELSE IF IsWordChar(s[i])
         THEN cut_from(s, i + 1, Append(cur, s[i]), acc)
         ELSE cut_from(s, i + 1, <<>>,
                       Append(IF cur = <<>> THEN acc ELSE Append(acc, cur), <<s[i]>>))

\* jieba.cut on the text of the model: every maximal run of letters and
\* digits is one token, every other character (blank, bracket, ...) is a
\* token of its own.  The concatenation of the tokens is the text.
jieba_cut(s) == cut_from(s, 1, <<>>, <<>>)

(* ------------------------------ sorting -------------------------------- *)

\* sorted(pairs, key=lambda x: x[1], reverse=True) is stable: an element is
\* placed after every element whose key is greater than or equal to its
\* own.  The key of a pair is its second component (Python's x[1]).
RECURSIVE StableSortDesc(_)
StableSortDesc(s) ==
    IF s = <<>> THEN <<>>
    ELSE LET n    == Len(s)
             x    == s[n]
             done == StableSortDesc(SubSeq(s, 1, n - 1))
             p    == Cardinality({j \in 1..Len(done) : done[j][2] >= x[2]})
         IN  SubSeq(done, 1, p) \o <<x>> \o SubSeq(done, p + 1, Len(done))

Take(s, n) == SubSeq(s, 1, IF Len(s) < n THEN Len(s) ELSE n)

(* ------------------------------ extract_keywords ----------------------- *)

\* Variant: the stop-word test is left out of the filter.
KeepWordIgnoringStopWords(word) == ~isnumeric(word) /\ Len(word) > 1

\* The filter of the inner loop: a token is counted iff it is not a stop
\* word, not numeric, and longer than one character.
KeepWord(word) ==
    word \notin CUSTOM_STOP_WORDS /\ ~isnumeric(word) /\ Len(word) > 1

\* Counter.update([word]): a Counter is an insertion-ordered sequence of
\* <<term, count>> pairs.
CounterUpdate(word_counts, word) ==
    IF \E i \in 1..Len(word_counts) : word_counts[i][1] = word
    THEN [i \in 1..Len(word_counts) |->
            IF word_counts[i][1] = word
            THEN <<word, word_counts[i][2] + 1>>
            ELSE word_counts[i]]
    ELSE Append(word_counts, <<word, 1>>)

RECURSIVE CountWords(_, _, _)
CountWords(word_counts, words, i) ==
    IF i > Len(words) THEN word_counts
    ELSE CountWords(IF KeepWord(words[i])
                    THEN CounterUpdate(word_counts, words[i])
                    ELSE word_counts,
                    words, i + 1)

RECURSIVE CountArticles(_, _, _)
CountArticles(word_counts, articles, i) ==
    IF i > Len(articles) THEN word_counts
    ELSE CountArticles(IF Falsy(articles[i].title)
                       THEN word_counts
                       ELSE CountWords(word_counts,
                                       jieba_cut(lower(articles[i].title)), 1),
                       articles, i + 1)

Reverse(s) == [i \in 1..Len(s) |-> s[Len(s) + 1 - i]]

\* Variant: ascending sort read from the back, so that equal counts come out
\* in last-encountered order.
most_common_ties_reversed(word_counts, n) ==
    Take(StableSortDesc(Reverse(word_counts)), n)

\* Counter.most_common(n): sorted(items, key=count, reverse=True)[:n]
most_common(word_counts, n) ==
    Take(StableSortDesc(word_counts), n)

extract_keywords(articles) ==
    most_common(CountArticles(<<>>, articles, 1), TOP_TRENDING_KEYWORDS_COUNT)

(* ------------------------------ score_article -------------------------- *)

Occurrences(s, k) ==
    Cardinality({i \in 0..(Len(s) - Len(k)) : SubSeq(s, i + 1, i + Len(k)) = k})

RECURSIVE ScoreLoopPerOccurrence(_, _, _, _)
ScoreLoopPerOccurrence(content, trending_keywords, i, score) ==
    IF i > Len(trending_keywords) THEN score
    ELSE ScoreLoopPerOccurrence(content, trending_keywords, i + 1,
             score + trending_keywords[i][2]
                       * Occurrences(content, trending_keywords[i][1]))

RECURSIVE ScoreLoop(_, _, _, _)
ScoreLoop(content, trending_keywords, i, score) ==
    IF i > Len(trending_keywords) THEN score
    ELSE ScoreLoop(content, trending_keywords, i + 1,
                   IF Contains(content, trending_keywords[i][1])
                   THEN score + trending_keywords[i][2]
                   ELSE score)

\* (article.get(f) or '').lower()
LowerOrEmpty(v) == IF Falsy(v) THEN <<>> ELSE lower(v)

Blob(article) ==
    LowerOrEmpty(article.title) \o <<" ">> \o LowerOrEmpty(article.description)

\* Variant: a keyword is added once per occurrence (content.count(keyword)).
score_article_per_occurrence(article, trending_keywords) ==
    ScoreLoopPerOccurrence(Blob(article), trending_keywords, 1, 0)

score_article(article, trending_keywords) ==
    ScoreLoop(Blob(article), trending_keywords, 1, 0)

(* ------------------------------ dates ---------------------------------- *)

\* A datetime is the number of days since Epoch (its time of day is carried
\* unchanged by timedelta(days=..) and dropped by strftime('%Y-%m-%d')).
Epoch == <<2024, 2, 19>>

IsLeapYear(y) == (y % 4 = 0 /\ y % 100 # 0) \/ y % 400 = 0

DaysInMonth(y, m) ==
    IF m = 2 THEN (IF IsLeapYear(y) THEN 28 + 1 ELSE 28)
    ELSE IF m \in {4, 6, 9, 11} THEN 30 ELSE 31

NextDay(d) ==
    IF d[3] < DaysInMonth(d[1], d[2]) THEN <<d[1], d[2], d[3] + 1>>
    ELSE IF d[2] < 12 THEN <<d[1], d[2] + 1, 1>>
    ELSE <<d[1] + 1, 1, 1>>

\* strftime('%Y-%m-%d'): the calendar date <<year, month, day>> of a datetime
RECURSIVE strftime(_)
strftime(dt) == IF dt = 0 THEN Epoch ELSE NextDay(strftime(dt - 1))

\* timedelta(days=n) subtracted from a datetime
MinusDays(dt, n) == dt - n

\* Order of 'YYYY-MM-DD' strings (zero padded, so lexicographic = by date)
DateLE(a, b) ==
    \/ a[1] < b[1]
    \/ a[1] = b[1] /\ a[2] < b[2]
    \/ a[1] = b[1] /\ a[2] = b[2] /\ a[3] <= b[3]

\* main(): the three dates computed from datetime.now()
Yesterday(now) == MinusDays(now, 1)
TrendStartDate(now) == MinusDays(now, TREND_SEARCH_DAYS)

(* ------------------------------ get_news_from_range -------------------- *)

\* The query parameters sent to the API
RequestParams(keywords, from_date, to_date, page_size) ==
    [q        |-> keywords,
     from     |-> strftime(from_date),
     to       |-> strftime(to_date),
     language |-> "zh",
     sortBy   |-> "popularity",
     pageSize |-> page_size]

\* The value returned for a response: a RequestException is converted to
\* the empty list, a body without 'articles' yields the default [].
get_news_from_range(response) ==
    IF response.kind = "ok" THEN response.articles ELSE <<>>

\* The calendar days a request asks for: from and to are both inclusive.
InWindow(day, params) == DateLE(params.from, day) /\ DateLE(day, params.to)

(* ------------------------------ inputs --------------------------------- *)

MaxDayOffset == 1
MaxTrendLen == 3
PadLen == 14

Article(title, description, url, source_name) ==
    [title |-> title, description |-> description, url |-> url,
     source_name |-> source_name]

Rep(x, n) == [i \in 1..n |-> x]

RECURSIVE Join(_)
Join(words) ==
    IF words = <<>> THEN <<>>
    ELSE IF Len(words) = 1 THEN words[1]
    ELSE words[1] \o <<" ">> \o Join(Tail(words))

SeqsUpTo(S, n) == UNION {[1..k -> S] : k \in 0..n}

\* Trend-window articles
tSora == Article(<<"S","o","r","a"," ","l","a","u","n","c","h","e","s">>, None, <<"t","1">>, <<"S","1">>)
tNvidia == Article(<<"N","v","i","d","i","a"," ","c","h","i","p","s">>, None, <<"t","2">>, <<"S","2">>)
tNoTitle == Article(None, <<"S","o","r","a">>, <<"t","3">>, None)
\* every token is dropped: stop word once lower-cased, search term, number,
\* single character
tDropped == Article(<<"T","h","e"," ","A","I"," ","4","2"," ","x">>, None, <<"t","4">>, None)

\* Three titles with, together, more distinct terms than
\* TOP_TRENDING_KEYWORDS_COUNT, the last of them occurring twice.
ManyLetters == <<"b","c","d","g","k">>
ManyWords ==
    [i \in 1..(TOP_TRENDING_KEYWORDS_COUNT + 2) |->
        <<ManyLetters[((i - 1) \div 5) + 1], ManyLetters[((i - 1) % 5) + 1]>>]
tManyA == Article(Join(SubSeq(ManyWords, 1, 8)), None, <<"t","5">>, None)
tManyB == Article(Join(SubSeq(ManyWords, 9, 16)), None, <<"t","6">>, None)
tManyC == Article(Join(SubSeq(ManyWords, 17, Len(ManyWords))
                         \o <<ManyWords[Len(ManyWords)]>>),
                  None, <<"t","7">>, None)

TrendPools ==
    SeqsUpTo({tSora, tNoTitle}, MaxTrendLen)
      \cup {<<tNvidia>>, <<tSora, tNvidia>>, <<tNvidia, tSora>>,
            <<tSora, tSora, tNvidia>>,
            <<tDropped>>, <<tDropped, tSora>>, <<tManyA, tManyB, tManyC>>}

\* Candidate-window articles
cSora == Article(<<"S","o","r","a"," ","d","e","m","o">>, None, <<"u","1">>, <<"S","1">>)
cChips == Article(<<"N","e","w"," ","c","h","i","p","s">>, <<"n","v","i","d","i","a"," ","N","v","i","d","i","a">>, <<"u","2">>, <<"S","2">>)
cRemoved == Article(<<"[","R","e","m","o","v","e","d","]">>, <<"S","o","r","a">>, <<"u","3">>, None)
cNoTitle == Article(None, <<"s","o","r","a">>, <<"u","4">>, <<"S","1">>)
cEmptyTitle == Article(<<>>, <<"s","o","r","a">>, <<"u","5">>, <<"S","1">>)
cWeather == Article(<<"W","e","a","t","h","e","r">>, <<>>, <<"u","6">>, None)
cBd == Article(<<"O","l","d"," ","n","e","w","s">>, <<"k","b"," ","b","d">>, <<"u","7">>, None)

CandidateArticles == {cSora, cChips, cRemoved, cNoTitle, cWeather}
CandidateEnds == {<<>>} \cup {<<a>> : a \in CandidateArticles}

\* Short pools, and pools longer than TARGET_ARTICLE_COUNT: PadLen copies of
\* one article with at most one article before and one after.
CandidatePools ==
    {h \o tl : h \in CandidateEnds, tl \in CandidateEnds}
      \cup {h \o Rep(p, PadLen) \o tl :
              h \in CandidateEnds \ {<<>>}, tl \in CandidateEnds \ {<<>>},
              p \in {cWeather, cSora}}
      \cup {<<cEmptyTitle>>, <<cBd, cWeather>>}

Responses(pools) ==
    {[kind |-> "ok", articles |-> p] : p \in pools}
      \cup {[kind |-> "error", articles |-> <<>>],
            [kind |-> "no_articles_key", articles |-> <<>>]}

\* The output file before the run: absent, or the list of an earlier run.
OldRecord ==
    [title |-> <<"O","l","d"," ","n","e","w","s">>, description |-> <<>>, url |-> <<"u","0">>,
     source |-> <<"N","/","A">>]
File(records) == [exists |-> TRUE, records |-> records]
NoFile == [exists |-> FALSE, records |-> <<>>]
PreviousFiles == {NoFile, File(<<OldRecord>>)}

(* ------------------------------ main ----------------------------------- *)

VARIABLES
    pc,                      \* position of main()
    today,                   \* datetime.now()
    requests,                \* the query parameters of the requests issued
    trend_articles,
    trending_keywords,
    yesterday_articles_pool,
    scored_articles,
    top_articles,
    output_file,             \* content of OUTPUT_FILE_PATH
    file_before,             \* content of OUTPUT_FILE_PATH when the run began
    stages                   \* the operations main() has carried out, in order

vars == <<pc, today, requests, trend_articles, trending_keywords,
          yesterday_articles_pool, scored_articles, top_articles,
          output_file, file_before, stages>>

Init ==
    /\ pc = "start"
    /\ today \in TREND_SEARCH_DAYS..(TREND_SEARCH_DAYS + MaxDayOffset)
    /\ requests = <<>>
    /\ trend_articles = <<>>
    /\ trending_keywords = <<>>
    /\ yesterday_articles_pool = <<>>
    /\ scored_articles = <<>>
    /\ top_articles = <<>>
    /\ output_file \in PreviousFiles
    /\ file_before = output_file
    /\ stages = <<>>

\* `if not trend_articles: return`
AfterTrendFetch(articles) == IF articles = <<>> THEN "aborted" ELSE "extract"

\* Variant: the empty keyword list is not checked.
AfterExtractUnchecked(keywords) == "fetch_candidates"

\* `if not trending_keywords: return`
AfterExtract(keywords) ==
    IF keywords = <<>> THEN "aborted" ELSE "fetch_candidates"

\* Variant: the empty candidate pool is not checked.
AfterCandidateFetchUnchecked(pool) == "score"

\* `if not yesterday_articles_pool: return`
AfterCandidateFetch(pool) == IF pool = <<>> THEN "aborted" ELSE "score"

\* Pass 1: the trend-window request and its result
FetchTrend ==
    /\ pc = "start"
    /\ \E response \in Responses(TrendPools) :
         /\ trend_articles' = get_news_from_range(response)
         /\ pc' = AfterTrendFetch(trend_articles')
    /\ requests' = Append(requests,
                          RequestParams(KEYWORDS, TrendStartDate(today),
                                        Yesterday(today), TREND_SEARCH_POOL_SIZE))
    /\ stages' = Append(stages, "fetch_trend")
    /\ UNCHANGED <<today, trending_keywords, yesterday_articles_pool,
                   scored_articles, top_articles, output_file, file_before>>

ExtractKeywords ==
    /\ pc = "extract"
    /\ trending_keywords' = extract_keywords(trend_articles)
    /\ pc' = AfterExtract(trending_keywords')
    /\ stages' = Append(stages, "extract")
    /\ UNCHANGED <<today, requests, trend_articles, yesterday_articles_pool,
                   scored_articles, top_articles, output_file, file_before>>

\* Pass 2: the candidate-window request and its result
FetchCandidates ==
    /\ pc = "fetch_candidates"
    /\ \E response \in Responses(CandidatePools) :
         /\ yesterday_articles_pool' = get_news_from_range(response)
         /\ pc' = AfterCandidateFetch(yesterday_articles_pool')
    /\ requests' = Append(requests,
                          RequestParams(KEYWORDS, Yesterday(today),
                                        Yesterday(today), FETCH_POOL_SIZE))
    /\ stages' = Append(stages, "fetch_candidates")
    /\ UNCHANGED <<today, trend_articles, trending_keywords, scored_articles,
                   top_articles, output_file, file_before>>

\* Variant: the placeholder title is not filtered.
IsValidCandidateWithPlaceholder(article) == ~Falsy(article.title)

\* The filter of the scoring loop: an article without a title, or with the
\* placeholder title, is skipped.
IsValidCandidate(article) ==
    ~(Falsy(article.title) \/ article.title = <<"[","R","e","m","o","v","e","d","]">>)

RECURSIVE ScorePool(_, _, _, _)
ScorePool(pool, keywords, i, scored) ==
    IF i > Len(pool) THEN scored
    ELSE ScorePool(pool, keywords, i + 1,
                   IF IsValidCandidate(pool[i])
                   THEN Append(scored, <<pool[i], score_article(pool[i], keywords)>>)
                   ELSE scored)

ScoreCandidates ==
    /\ pc = "score"
    /\ scored_articles' = ScorePool(yesterday_articles_pool, trending_keywords, 1, <<>>)
    /\ pc' = "sort"
    /\ stages' = Append(stages, "score")
    /\ UNCHANGED <<today, requests, trend_articles, trending_keywords,
                   yesterday_articles_pool, top_articles, output_file, file_before>>

\* Variant: sort(key=...) followed by reverse(), which reverses equal scores.
SortThenReverse(scored) == StableSortDesc(Reverse(scored))

\* scored_articles.sort(key=lambda x: x[1], reverse=True)
SortByScore(scored) == StableSortDesc(scored)

\* Variant: the slice is left out.
TopArticlesUncut(scored) == [i \in 1..Len(scored) |-> scored[i][1]]

\* [article for article, score in scored_articles[:TARGET_ARTICLE_COUNT]]
TopArticles(scored) ==
    LET cut == Take(scored, TARGET_ARTICLE_COUNT)
    IN  [i \in 1..Len(cut) |-> cut[i][1]]

SortAndTruncate ==
    /\ pc = "sort"
    /\ scored_articles' = SortByScore(scored_articles)
    /\ top_articles' = TopArticles(scored_articles')
    /\ pc' = "save"
    /\ stages' = Append(stages, "sort")
    /\ UNCHANGED <<today, requests, trend_articles, trending_keywords,
                   yesterday_articles_pool, output_file, file_before>>

\* The four output fields of an article
Processed(article) ==
    [title       |-> article.title,
     description |-> article.description,
     url         |-> article.url,
     source      |-> IF article.source_name = None THEN <<"N","/","A">>
                     ELSE article.source_name]

\* Pass 3: yaml.dump of the processed list into the file opened with 'w'
SaveOutput ==
    /\ pc = "save"
    /\ output_file' = File([i \in 1..Len(top_articles) |-> Processed(top_articles[i])])
    /\ pc' = "written"
    /\ stages' = Append(stages, "write")
    /\ UNCHANGED <<today, requests, trend_articles, trending_keywords,
                   yesterday_articles_pool, scored_articles, top_articles,
                   file_before>>

Next ==
    \/ FetchTrend
    \/ ExtractKeywords
    \/ FetchCandidates
    \/ ScoreCandidates
    \/ SortAndTruncate
    \/ SaveOutput

Spec == Init /\ [][Next]_vars

Terminal == pc \in {"written", "aborted"}

PcValues == {"start", "extract", "fetch_candidates", "score", "sort", "save",
             "written", "aborted"}

\* What every step of main() does to its position: it moves on from a
\* position that is not terminal.  Every action of Next is such a step, and
\* one is possible exactly when some action of Next is.
Advance == ~Terminal /\ pc' \in PcValues \ {pc}

\* main() runs on one thread that is never suspended for ever, and every
\* request returns or raises: while main() can move on, it eventually does.
FairSpec == Spec /\ WF_pc(Advance)

(* ------------------------------ properties ----------------------------- *)

Range(s) == {s[i] : i \in 1..Len(s)}
Min(a, b) == IF a < b THEN a ELSE b
IsPrefix(s, full) == Len(s) <= Len(full) /\ s = SubSeq(full, 1, Len(s))
LastStage(name) == stages # <<>> /\ stages[Len(stages)] = name

RECURSIVE SumOf(_, _)
SumOf(f, S) ==
    IF S = {} THEN 0
    ELSE LET x == CHOOSE y \in S : TRUE IN f[x] + SumOf(f, S \ {x})

EmptyTrend == "fetch_trend" \in Range(stages) /\ trend_articles = <<>>
EmptyKeywords == "extract" \in Range(stages) /\ trending_keywords = <<>>
EmptyCandidates ==
    "fetch_candidates" \in Range(stages) /\ yesterday_articles_pool = <<>>

\* C1: when the trend fetch yields the empty list (a failed fetch included),
\* or extract_keywords yields the empty list, or the candidate fetch yields
\* the empty list, the run has ended there: the writer is never invoked and
\* the output file is what it was before the run.
C1_EmptyAborts ==
    (EmptyTrend \/ EmptyKeywords \/ EmptyCandidates)
        => /\ pc = "aborted"
           /\ "write" \notin Range(stages)
           /\ output_file = file_before

C1_Witness ==
    /\ pc = "aborted"
    /\ EmptyCandidates
    /\ trending_keywords # <<>>
    /\ output_file = File(<<OldRecord>>)

ValidCandidates ==
    {i \in 1..Len(yesterday_articles_pool) :
        /\ yesterday_articles_pool[i].title # None
        /\ yesterday_articles_pool[i].title # <<>>
        /\ yesterday_articles_pool[i].title # <<"[","R","e","m","o","v","e","d","]">>}

\* C2: the process never writes an empty output file: whenever the writer
\* has been invoked the written list holds at least one record, and a
\* candidate pool that is empty after the title filter leaves the file as it
\* was before the run.
C2_NeverWritesEmpty ==
    /\ "write" \in Range(stages) => Len(output_file.records) >= 1
    /\ ("fetch_candidates" \in Range(stages) /\ ValidCandidates = {})
           => "write" \notin Range(stages) /\ output_file = file_before

CalendarDays == {strftime(d) : d \in 0..(TREND_SEARCH_DAYS + MaxDayOffset)}

\* C3: the two requested date windows do not overlap: the trend window ends
\* before the most recent completed day (yesterday), the candidate window is
\* exactly that day, and no calendar day lies in both.
C3_WindowsDisjoint ==
    Len(requests) = 2
        => /\ requests[2].from = strftime(Yesterday(today))
           /\ requests[2].to = strftime(Yesterday(today))
           /\ ~InWindow(strftime(Yesterday(today)), requests[1])
           /\ \A day \in CalendarDays :
                ~(InWindow(day, requests[1]) /\ InWindow(day, requests[2]))

\* C4: no record handed to the writer has a title that is missing, empty or
\* the placeholder "[Removed]".
C4_NoInvalidTitleWritten ==
    "write" \in Range(stages)
        => \A i \in 1..Len(output_file.records) :
             /\ output_file.records[i].title # None
             /\ output_file.records[i].title # <<>>
             /\ output_file.records[i].title # <<"[","R","e","m","o","v","e","d","]">>

C4_Witness ==
    /\ pc = "written"
    /\ Len(output_file.records) >= 1
    /\ \E i, j, k \in 1..Len(yesterday_articles_pool) :
         /\ yesterday_articles_pool[i].title = <<"[","R","e","m","o","v","e","d","]">>
         /\ yesterday_articles_pool[j].title = None
         /\ k \in ValidCandidates

\* C5: the number of records written is min(TARGET_ARTICLE_COUNT, number of
\* candidates that passed the title filter).
C5_OutputLength ==
    "write" \in Range(stages)
        => Len(output_file.records)
             = Min(TARGET_ARTICLE_COUNT, Cardinality(ValidCandidates))

C5_Witness ==
    /\ pc = "written"
    /\ Cardinality(ValidCandidates) > TARGET_ARTICLE_COUNT
    /\ Len(output_file.records) = TARGET_ARTICLE_COUNT

\* The valid candidates ranked by descending score, equal scores in the
\* order of the fetch result: the article at each rank.
RankedCandidates ==
    LET scored == {<<i, score_article(yesterday_articles_pool[i], trending_keywords)>> :
                      i \in ValidCandidates}
        Rank(e) == 1 + Cardinality({d \in scored :
                                      \/ d[2] > e[2]
                                      \/ d[2] = e[2] /\ d[1] < e[1]})
    IN  [r \in 1..Cardinality(scored) |->
            yesterday_articles_pool[(CHOOSE e \in scored : Rank(e) = r)[1]]]

\* C6: the written list is the first TARGET_ARTICLE_COUNT valid candidates
\* in descending score order, equal scores keeping the order of the
\* candidate fetch result (so no candidate left out outscores a written one).
C6_StableDescendingTop ==
    "write" \in Range(stages)
        => LET expected == Take(RankedCandidates, TARGET_ARTICLE_COUNT)
           IN  /\ top_articles = expected
               /\ output_file.records
                    = [r \in 1..Len(expected) |-> Processed(expected[r])]

C6_Witness ==
    /\ pc = "written"
    /\ Cardinality(ValidCandidates) > TARGET_ARTICLE_COUNT
    /\ \E i, j, k \in ValidCandidates :
         /\ i < j /\ j < k
         /\ score_article(yesterday_articles_pool[i], trending_keywords)
              < score_article(yesterday_articles_pool[k], trending_keywords)
         /\ score_article(yesterday_articles_pool[i], trending_keywords)
              = score_article(yesterday_articles_pool[j], trending_keywords)
         /\ yesterday_articles_pool[i] # yesterday_articles_pool[j]

\* The tokens of the lower-cased title of the a-th trend article
TitleTokens(a) ==
    IF trend_articles[a].title = None \/ trend_articles[a].title = <<>>
    THEN <<>>
    ELSE jieba_cut(lower(trend_articles[a].title))

\* The occurrences <<article, position, token>> of the tokens that survive
\* the filter, in the lower-cased titles of the trend pool.
SurvivingOccurrences ==
    UNION {LET toks == TitleTokens(a)
           IN  {<<a, i, toks[i]>> : i \in {j \in 1..Len(toks) : KeepWord(toks[j])}} :
           a \in 1..Len(trend_articles)}

OccurrenceBefore(o, p) == o[1] < p[1] \/ (o[1] = p[1] /\ o[2] < p[2])

\* C7: extract_keywords returns <<term, frequency>> pairs with distinct
\* terms, at most TOP_TRENDING_KEYWORDS_COUNT of them, by non-increasing
\* frequency; a frequency is the number of surviving occurrences of the term
\* (>= 1); equal frequencies come in first-encountered order; and a term left
\* out is no more frequent than any returned term.
C7_TopKeywords ==
    LastStage("extract")
        => LET occ      == SurvivingOccurrences
               terms    == {o[3] : o \in occ}
               Freq(w)  == Cardinality({o \in occ : o[3] = w})
               First(w) == CHOOSE o \in occ :
                              /\ o[3] = w
                              /\ \A p \in occ : p[3] = w => ~OccurrenceBefore(p, o)
               kw       == trending_keywords
               n        == Len(kw)
           IN  /\ n = Min(TOP_TRENDING_KEYWORDS_COUNT, Cardinality(terms))
               /\ \A i \in 1..n : kw[i][1] \in terms /\ kw[i][2] = Freq(kw[i][1])
               /\ \A i \in 1..n : kw[i][2] >= 1
               /\ \A i, j \in 1..n : i < j => kw[i][1] # kw[j][1]
               /\ \A i, j \in 1..n : i < j => kw[i][2] >= kw[j][2]
               /\ \A i, j \in 1..n :
                    (i < j /\ kw[i][2] = kw[j][2])
                        => OccurrenceBefore(First(kw[i][1]), First(kw[j][1]))
               /\ \A w \in terms :
                    (\A i \in 1..n : kw[i][1] # w)
                        => \A i \in 1..n : Freq(w) <= kw[i][2]

C7_Witness ==
    /\ LastStage("extract")
    /\ Len(trending_keywords) = TOP_TRENDING_KEYWORDS_COUNT
    /\ Cardinality({o[3] : o \in SurvivingOccurrences})
          > TOP_TRENDING_KEYWORDS_COUNT
    /\ trending_keywords[1][2] > trending_keywords[2][2]
    /\ trending_keywords[2][2] = trending_keywords[3][2]
    /\ Len(trend_articles) > 1

\* C8: no term returned by extract_keywords is a stop word (the search terms
\* included), has at most one character, or is purely numeric, whatever the
\* letter case of the titles.
C8_NoFilteredTerms ==
    LastStage("extract")
        => \A i \in 1..Len(trending_keywords) :
             /\ trending_keywords[i][1] \notin CUSTOM_STOP_WORDS
             /\ Len(trending_keywords[i][1]) > 1
             /\ ~(\A c \in Range(trending_keywords[i][1]) : c \in NumericChars)

C8_Witness ==
    /\ LastStage("extract")
    /\ trending_keywords # <<>>
    /\ \E a \in 1..Len(trend_articles) :
         /\ trend_articles[a].title # None
         /\ trend_articles[a].title # lower(trend_articles[a].title)
         /\ \E i, j, k \in 1..Len(TitleTokens(a)) :
              /\ TitleTokens(a)[i] \in CUSTOM_STOP_WORDS
              /\ TitleTokens(a)[j] = <<"4","2">>
              /\ TitleTokens(a)[k] = <<"x">>

\* The keywords of a list that occur in the lower-cased title and
\* description of an article.
MatchingKeywords(article, keywords) ==
    {i \in 1..Len(keywords) : Contains(Blob(article), keywords[i][1])}

ExtraKeywords == {<<<<"s","o","r","a">>, 1>>, <<<<"c","h","i","p","s">>, 2>>, <<<<"z","z">>, 3>>}

\* C9: score_article is the sum of the frequencies of exactly the keywords
\* that occur as a substring of the lower-cased title and description, each
\* counted once; so it is >= 0, a further matching keyword never lowers it,
\* and repeating the text of a matching keyword does not raise it.
C9_ScoreIsSumOfMatches ==
    LastStage("score")
        => \A e \in Range(scored_articles) :
             LET article == e[1]
                 kws     == trending_keywords
                 weight  == [i \in 1..Len(kws) |-> kws[i][2]]
             IN  /\ e[2] = SumOf(weight, MatchingKeywords(article, kws))
                 /\ e[2] >= 0
                 /\ \A k \in ExtraKeywords :
                      score_article(article, Append(kws, k))
                        = e[2] + (IF Contains(Blob(article), k[1]) THEN k[2] ELSE 0)
                 /\ \A i \in MatchingKeywords(article, kws) :
                      LET again == [article EXCEPT !.description =
                                       LowerOrEmpty(@) \o <<" ">> \o kws[i][1]]
                      IN  score_article(again, <<kws[i]>>) = kws[i][2]

C9_Witness ==
    /\ LastStage("score")
    /\ Len(trending_keywords) > 1
    /\ \E e \in Range(scored_articles) :
         /\ e[2] > 0
         /\ MatchingKeywords(e[1], trending_keywords) # 1..Len(trending_keywords)
         /\ \E i \in MatchingKeywords(e[1], trending_keywords) :
              \E p, q \in 0..(Len(Blob(e[1])) - Len(trending_keywords[i][1])) :
                 /\ p < q
                 /\ SubSeq(Blob(e[1]), p + 1, p + Len(trending_keywords[i][1]))
                      = trending_keywords[i][1]
                 /\ SubSeq(Blob(e[1]), q + 1, q + Len(trending_keywords[i][1]))
                      = trending_keywords[i][1]

Pipeline == <<"fetch_trend", "extract", "fetch_candidates", "score", "sort", "write">>

\* C10: a run is a linear pipeline without retries or loops back: the
\* operations carried out are always an initial part of trend fetch,
\* extraction, candidate fetch, scoring, sorting, writing (each at most once,
\* in that order), the candidate fetch is issued only once extraction has
\* produced a non-empty list, and every run eventually reaches a terminal
\* state (written or aborted).
C10_LinearPipeline ==
    /\ [](/\ IsPrefix(stages, Pipeline)
          /\ Len(requests) = Cardinality(Range(stages)
                                \cap {"fetch_trend", "fetch_candidates"})
          /\ "fetch_candidates" \in Range(stages) => trending_keywords # <<>>
          /\ pc = "written" <=> "write" \in Range(stages))
    /\ <>Terminal

C10_Witness == pc = "written" /\ stages = Pipeline /\ Len(requests) = 2

====
